---------------------------- MODULE Spec2Model ----------------------------
(***************************************************************************)
(* A model of deeplabcut_workshop_tutorial.ipynb: the code cells of the    *)
(* notebook run by a user in a Colab runtime.  The state is the kernel     *)
(* (the next cell, the namespace, the exception that stopped the run),     *)
(* the files under /content that the cells read and write, and the         *)
(* progress of the train_network call.  The DeepLabCut, PyYAML, shutil and *)
(* OpenCV calls are modelled by the contract the notebook states for them  *)
(* in its markdown and comments.                                           *)
(***************************************************************************)
EXTENDS Integers, Sequences, FiniteSets, TLC

VARIABLES
    session,           \* "connected" | "disconnected": the Colab runtime
    pc,                \* index in CellOrder of the next cell to run
    line,              \* "idle", or the position inside the running cell
    raised,            \* the uncaught exception that stopped the run
    restarted,         \* the runtime was restarted after the installation
    ns,                \* names bound in the kernel
    shuffle,           \* value of the Python variable shuffle (0: unbound)
    pose_cfg_content,  \* value of the Python variable pose_cfg_content
    log,               \* library calls and displays made, in order
    printed,           \* messages printed by the Drive-copy cell
    source_folder,     \* the folder on Google Drive
    destination_folder,\* /content/behavior-and-calcium-imaging-workshop
    trainsets,         \* shuffles for which a training dataset exists
    pose_cfg,          \* shuffle -> the file .../shuffle<n>/train/pose_cfg.yaml
    orig,              \* pose_cfg.yaml as it was when the edit cell started
    editRuns,          \* times the edit cell was started
    snapshots,         \* snapshot-<n> files in the train folder of the shuffle
    h5,                \* analysis results, by [shuffle, snapshot]
    pngs,              \* files under plot-poses/day0croppedshortdownsampled
    labeled,           \* labeled videos, by [shuffle, snapshot, p]
    trainStatus,       \* "notrun" | "running" | "finished" | "interrupted" | "lost"
    init_weights,      \* the weights train_network started from
    start_iter,        \* the iteration train_network started at
    it                 \* the iteration train_network has reached

vars == <<session, pc, line, raised, restarted, ns, shuffle, pose_cfg_content,
          log, printed, source_folder, destination_folder, trainsets, pose_cfg,
          orig, editRuns, snapshots, h5, pngs, labeled, trainStatus,
          init_weights, start_iter, it>>

---------------------------------------------------------------------------
(* Bounds of the model *)

\* longest mapping text drawn as the content of pose_cfg.yaml
MaxEntries == 2
\* times the edit cell may be started on the same file
MaxEditRuns == 2

---------------------------------------------------------------------------
(* Values the notebook hard-codes *)

ProjectFolderName == "workshop-network-2025"

\* shuffle = 1
ShuffleValue_two == 1 + 1
ShuffleValue == 1

\* train_network(..., displayiters=10, saveiters=50, maxiters=100)
saveiters_late == 10 * 50
saveiters == 50
maxiters_short == 100 \div 2
maxiters == 100

\* "when it hits the end (default, 1.03M iterations)"
DefaultMaxIters == 1030000

\* old_dlc-models/iteration-5/ss_vs_sscwJan30-trainset95shuffle2/train/snapshot-100000
Checkpoint == "old_dlc-models/iteration-5/ss_vs_sscwJan30-trainset95shuffle2/train/snapshot-100000"
CheckpointIndex == 100000

\* the snapshot index in the labeled-video filename the last cell opens
LabelledVideoSnapshot == 100100

\* create_training_dataset is called without num_shuffles: "most likely 1 if you
\* followed the default settings"
num_shuffles == 1

\* the weights create_training_dataset puts in a new pose_cfg.yaml (net_type='resnet_50')
Pretrained == "resnet_v1_50.ckpt"

\* what the Drive folder of the workshop holds
DriveItems == {"config.yaml", "snapshot-100000", "behavior-videos"}

Shuffles == 1..2

PlotFiles == <<"plot-likelihood.png", "hist.png", "plot.png", "trajectory.png">>

---------------------------------------------------------------------------
(* PyYAML: the text of a YAML file, safe_load and dump *)

Keys == {"batch_size", "init_weights", "net_type"}
\* yaml.dump sorts the keys of a mapping
KeyOrder == <<"batch_size", "init_weights", "net_type">>

\* chars that a plain scalar resolves to an int
IntLike == {"1"}
Tokens == [style : {"plain", "quoted"}, chars : {"1", "resnet_50", Pretrained}]

Entry == [key : Keys, tok : Tokens]

SeqsUpTo(S, n) == UNION {[1..m -> S] : m \in 0..n}

\* a block mapping ("map"), and the texts that do not load to a dictionary
MapText(entries) == [kind |-> "map", entries |-> entries]
OtherTexts == {[kind |-> k, entries |-> <<>>] : k \in {"empty", "seq", "scalar", "invalid"}}
EmptyText == [kind |-> "empty", entries |-> <<>>]

\* Python values: a dict (items: key -> scalar), a list, a str, None
PyDict(items) == [type |-> "dict", items |-> items]
PyOther(t) == [type |-> t, items |-> <<>>]
PyNone == PyOther("NoneType")
YAMLError == PyOther("YAMLError")
TypeError == PyOther("TypeError")

\* the scalar a token resolves to: a plain 1 is an int, a quoted '1' a str
Resolve(tok) ==
    IF tok.style = "plain" /\ tok.chars \in IntLike
    THEN [t |-> "int", v |-> tok.chars]
    ELSE [t |-> "str", v |-> tok.chars]

\* the token yaml.dump writes for a scalar: a str that reads as an int is quoted
Represent_plain(val) == [style |-> "plain", chars |-> val.v]
Represent(val) ==
    IF val.t = "str" /\ val.v \in IntLike
    THEN [style |-> "quoted", chars |-> val.v]
    ELSE [style |-> "plain", chars |-> val.v]

Str(s) == [t |-> "str", v |-> s]

\* the last entry of a key wins
LastOf(entries, k) ==
    LET idx == {i \in 1..Len(entries) : entries[i].key = k}
        last == CHOOSE i \in idx : \A j \in idx : j <= i
    IN Resolve(entries[last].tok)

safe_load(text) ==
    CASE text.kind = "map" ->
           PyDict([k \in {text.entries[i].key : i \in 1..Len(text.entries)} |->
                      LastOf(text.entries, k)])
      [] text.kind = "seq" -> PyOther("list")
      [] text.kind = "scalar" -> PyOther("str")
      [] text.kind = "empty" -> PyNone
      [] OTHER -> YAMLError

RECURSIVE DumpFrom(_, _)
DumpFrom(items, i) ==
    IF i > Len(KeyOrder) THEN <<>>
    ELSE LET k == KeyOrder[i] IN
         (IF k \in DOMAIN items
          THEN <<[key |-> k, tok |-> Represent(items[k])]>>
          ELSE <<>>) \o DumpFrom(items, i + 1)

\* a dump that leaves out the first entry of a mapping
dump_lossy(value) ==
    CASE value.type = "dict" ->
           MapText(IF DumpFrom(value.items, 1) = <<>> THEN <<>>
                   ELSE Tail(DumpFrom(value.items, 1)))
      [] value.type = "list" -> [kind |-> "seq", entries |-> <<>>]
      [] value.type = "str" -> [kind |-> "scalar", entries |-> <<>>]
      [] OTHER -> [kind |-> "scalar", entries |-> <<>>]

dump(value) ==
    CASE value.type = "dict" -> MapText(DumpFrom(value.items, 1))
      [] value.type = "list" -> [kind |-> "seq", entries |-> <<>>]
      [] value.type = "str" -> [kind |-> "scalar", entries |-> <<>>]
      [] OTHER -> [kind |-> "scalar", entries |-> <<>>]

\* obj[key] = val
SetItem_fresh(obj, key, val) ==
    IF obj.type = "dict"
    THEN PyDict([k \in DOMAIN obj.items \cup {key} |->
                    IF k = key THEN val ELSE obj.items[k]])
    ELSE PyDict([k \in {key} |-> val])
SetItem(obj, key, val) ==
    IF obj.type = "dict"
    THEN PyDict([k \in DOMAIN obj.items \cup {key} |->
                    IF k = key THEN val ELSE obj.items[k]])
    ELSE TypeError

\* a file: absent, or present with a text, readable or not
Absent == [exists |-> FALSE, readable |-> FALSE, text |-> EmptyText]
File(text) == [exists |-> TRUE, readable |-> TRUE, text |-> text]
Unreadable(text) == [exists |-> TRUE, readable |-> FALSE, text |-> text]

\* the pose_cfg.yaml create_training_dataset writes for net_type='resnet_50'
TemplateText ==
    MapText(<<[key |-> "batch_size", tok |-> [style |-> "plain", chars |-> "1"]],
              [key |-> "init_weights", tok |-> [style |-> "plain", chars |-> Pretrained]],
              [key |-> "net_type", tok |-> [style |-> "plain", chars |-> "resnet_50"]]>>)

---------------------------------------------------------------------------
(* The code cells, in the order of the notebook *)

CellOrder_swapped ==
    <<"q23BzhA6CXxu", "gpu_check", "KS4Q4UkR9rgG", "vhENAlQnFENJ", "3K9Ndy1beyfG",
      "Z7ZlDr3wV4D1", "eMeUwgxPoEJP", "zBimBAQJfmr-", "_pOvDq_2oEJW", "Y_LZiS_0oEJl",
      "nv4zlbrnoEJg", "-2Cd38CsI_49", "gX21zZbXoEKJ", "O_59sDbGprdv", "6aDF7Q7KoEKE",
      "JLckBInuqIxt">>
CellOrder ==
    <<"q23BzhA6CXxu", "gpu_check", "KS4Q4UkR9rgG", "vhENAlQnFENJ", "3K9Ndy1beyfG",
      "Z7ZlDr3wV4D1", "eMeUwgxPoEJP", "zBimBAQJfmr-", "_pOvDq_2oEJW", "nv4zlbrnoEJg",
      "Y_LZiS_0oEJl", "-2Cd38CsI_49", "gX21zZbXoEKJ", "O_59sDbGprdv", "6aDF7Q7KoEKE",
      "JLckBInuqIxt">>

Idx(c) == CHOOSE i \in 1..Len(CellOrder) : CellOrder[i] = c
Done == Len(CellOrder) + 1

\* "restart the runtime, then re-run the notebook from here": the first cell of Step 2
RestartFrom == "KS4Q4UkR9rgG"

\* a statement: the names it reads, then the names it binds
S(r, b) == [r |-> r, b |-> b]

DLCArgs == {"deeplabcut", "path_config_file", "videofile_path", "VideoType", "shuffle"}

\* import deeplabcut; print("DeepLabCut version:", deeplabcut.__version__)
ImportCellStmts_noImport == <<S({"deeplabcut"}, {})>>
ImportCellStmts == <<S({}, {"deeplabcut"}), S({"deeplabcut"}, {})>>

Stmts(c) ==
    CASE c = "gpu_check" ->
           <<S({}, {"tf"}), S({}, {"torch"}), S({"torch"}, {}), S({"torch"}, {}),
             S({"tf"}, {})>>
      [] c = "KS4Q4UkR9rgG" ->
           <<S({}, {"drive"}), S({}, {"shutil"}), S({"drive"}, {}),
             S({}, {"source_folder"}), S({}, {"destination_folder"}),
             S({"shutil", "source_folder", "destination_folder"}, {})>>
      [] c = "vhENAlQnFENJ" ->
           <<S({}, {"ProjectFolderName"}), S({}, {"VideoType"}),
             S({}, {"videofile_path"}), S({"videofile_path"}, {})>>
      [] c = "3K9Ndy1beyfG" -> ImportCellStmts
      [] c = "Z7ZlDr3wV4D1" ->
           <<S({"ProjectFolderName"}, {"path_config_file"}), S({"path_config_file"}, {})>>
      [] c = "eMeUwgxPoEJP" -> <<S({"deeplabcut", "path_config_file"}, {})>>
      [] c = "zBimBAQJfmr-" ->
           <<S({}, {"yaml"}), S({}, {"shuffle"}),
             S({"ProjectFolderName", "shuffle"}, {"pose_cfg_path"}),
             S({"ProjectFolderName"}, {"checkpoint"}),
             S({"pose_cfg_path"}, {"file"}),
             S({"yaml", "file"}, {"pose_cfg_content"}),
             S({"pose_cfg_content", "checkpoint"}, {}),
             S({"pose_cfg_path"}, {"file"}),
             S({"yaml", "pose_cfg_content", "file"}, {})>>
      [] c \in {"_pOvDq_2oEJW", "nv4zlbrnoEJg"} ->
           <<S({"deeplabcut", "path_config_file", "shuffle"}, {})>>
      [] c \in {"Y_LZiS_0oEJl", "gX21zZbXoEKJ", "6aDF7Q7KoEKE"} -> <<S(DLCArgs, {})>>
      [] c = "O_59sDbGprdv" ->
           <<S({}, {"plt"}), S({}, {"Image"}), S({}, {"mpld3"}), S({}, {"display", "HTML"}),
             S({}, {"root"}), S({"root"}, {"plot_likelihood_path"}),
             S({"root"}, {"hist_path"}), S({"root"}, {"plot_path"}),
             S({"root"}, {"trajectory_path"}), S({"plt"}, {"fig", "axes"}),
             S({"plot_likelihood_path", "hist_path", "plot_path", "trajectory_path"},
               {"images"}),
             S({}, {"titles"}), S({"axes", "images", "titles"}, {"ax", "image", "title"}),
             S({"Image", "image"}, {"img"}), S({"ax", "img"}, {}), S({"ax", "title"}, {}),
             S({"ax"}, {}), S({"mpld3", "fig"}, {"html_plot"}),
             S({"display", "HTML", "html_plot"}, {})>>
      [] c = "JLckBInuqIxt" ->
           <<S({}, {"cv2"}), S({}, {"plt"}), S({"shuffle"}, {"labelled_video_path"}),
             S({"cv2", "labelled_video_path"}, {"video_capture"}),
             S({"video_capture"}, {"ret", "frame"}), S({"cv2", "frame"}, {"frame_rgb"}),
             S({"plt"}, {"fig", "ax"}), S({"ax", "frame_rgb"}, {}), S({"ax"}, {}),
             S({"mpld3", "fig"}, {"html_plot"}),
             S({"display", "HTML", "html_plot"}, {})>>
      [] OTHER -> <<>>   \* the two cells of shell commands

\* the namespace after the statements i.. of a cell, or {"NameError"} at the
\* first statement that reads an unbound name
RECURSIVE Exec(_, _, _)
Exec(stmts, i, names) ==
    IF i > Len(stmts) THEN names
    ELSE IF stmts[i].r \subseteq names
         THEN Exec(stmts, i + 1, names \cup stmts[i].b)
         ELSE {"NameError"}

NameError(c) == Exec(Stmts(c), 1, ns) = {"NameError"}
Bound(c) == Exec(Stmts(c), 1, ns)

---------------------------------------------------------------------------
(* The kernel and the files *)

NoExc == [exc |-> "none", cell |-> "", line |-> 0]
Exc(e, c, l) == [exc |-> e, cell |-> c, line |-> l]

NoFolder == [exists |-> FALSE, items |-> {}]
Folder(items) == [exists |-> TRUE, items |-> items]

Has(item) == destination_folder.exists /\ item \in destination_folder.items
ConfigExists == Has("config.yaml")
CheckpointExists == Has("snapshot-100000")
VideosExist == Has("behavior-videos")

SnapshotsOf(s) == {x.index : x \in {y \in snapshots : y.shuffle = s}}
Latest(s) == CHOOSE n \in SnapshotsOf(s) : \A m \in SnapshotsOf(s) : m <= n

\* the iteration in the name of a weights file: snapshot-<n>, or none
SnapshotIndex(w) == IF w = Checkpoint THEN CheckpointIndex ELSE 0

\* the same path with the index of the checkpoint training started from
labelled_video_path_checkpoint == [shuffle |-> shuffle, snapshot |-> CheckpointIndex]

\* the labeled video the last cell opens
labelled_video_path == [shuffle |-> shuffle, snapshot |-> LabelledVideoSnapshot]

Ready(c) ==
    /\ session = "connected"
    /\ raised = NoExc
    /\ line = "idle"
    /\ pc = Idx(c)

kernelVars == <<session, restarted, shuffle, pose_cfg_content>>
fileVars == <<source_folder, destination_folder, trainsets, pose_cfg, snapshots,
              h5, pngs, labeled>>
trainVars == <<trainStatus, init_weights, start_iter, it>>
editVars == <<orig, editRuns>>

\* the cell stops with an uncaught exception and the run stops with it
Fails(e, c, l) ==
    /\ raised' = Exc(e, c, l)
    /\ UNCHANGED <<pc, line, log, printed>>
    /\ UNCHANGED <<kernelVars, fileVars, trainVars, editVars>>

Init ==
    /\ session = "connected"
    /\ pc = 1
    /\ line = "idle"
    /\ raised = NoExc
    /\ restarted = FALSE
    /\ ns = {}
    /\ shuffle = 0
    /\ pose_cfg_content = PyNone
    /\ log = <<>>
    /\ printed = <<>>
    /\ source_folder \in {NoFolder} \cup {Folder(items) : items \in SUBSET DriveItems}
    /\ destination_folder = NoFolder
    /\ trainsets = {}
    /\ pose_cfg = [s \in Shuffles |-> Absent]
    /\ orig = Absent
    /\ editRuns = 0
    /\ snapshots = {}
    /\ h5 = {}
    /\ pngs = {}
    /\ labeled = {}
    /\ trainStatus = "notrun"
    /\ init_weights = ""
    /\ start_iter = 0
    /\ it = 0

---------------------------------------------------------------------------
(* Cells that only bind names or run shell commands *)

Simple(c) ==
    /\ Ready(c)
    /\ IF NameError(c)
       THEN /\ Fails("NameError", c, 0)
            /\ UNCHANGED ns
       ELSE /\ ns' = Bound(c)
            /\ pc' = pc + 1
            /\ UNCHANGED <<line, raised, log, printed>>
            /\ UNCHANGED <<kernelVars, fileVars, trainVars, editVars>>

Install == Simple("q23BzhA6CXxu")
GpuCheck == Simple("gpu_check")
SetVariables == Simple("vhENAlQnFENJ")
ImportDeeplabcut == Simple("3K9Ndy1beyfG")
SetPathConfigFile == Simple("Z7ZlDr3wV4D1")
InstallMpld3 == Simple("-2Cd38CsI_49")

\* Runtime -> Restart runtime, then re-run from Step 2: the names are gone,
\* the files and the installed packages stay
Restart ==
    /\ Ready(RestartFrom)
    /\ ~restarted
    /\ restarted' = TRUE
    /\ ns' = {}
    /\ shuffle' = 0
    /\ pose_cfg_content' = PyNone
    /\ UNCHANGED <<session, pc, line, raised, log, printed>>
    /\ UNCHANGED <<fileVars, trainVars, editVars>>

\* the same cell with copytree(..., dirs_exist_ok=True)
CopyFromDrive_existOk ==
    LET c == "KS4Q4UkR9rgG" IN
    /\ Ready(c)
    /\ ns' = Bound(c)
    /\ IF ~source_folder.exists
       THEN Fails("FileNotFoundError", c, 182)
       ELSE \E got \in SUBSET source_folder.items :
              /\ destination_folder' = Folder(destination_folder.items \cup got)
              /\ IF got = source_folder.items
                 THEN /\ printed' = Append(printed, "Files copied successfully!")
                      /\ pc' = pc + 1
                      /\ UNCHANGED raised
                 ELSE /\ raised' = Exc("shutil.Error", c, 182)
                      /\ UNCHANGED <<pc, printed>>
              /\ UNCHANGED <<line, log, kernelVars, trainVars, editVars>>
              /\ UNCHANGED <<source_folder, trainsets, pose_cfg, snapshots, h5,
                             pngs, labeled>>

\* drive.mount, shutil.copytree, print
CopyFromDrive ==
    LET c == "KS4Q4UkR9rgG" IN
    /\ Ready(c)
    /\ IF NameError(c)
       THEN Fails("NameError", c, 0) /\ UNCHANGED ns
       ELSE
       /\ ns' = Bound(c)
       /\ IF ~source_folder.exists
          THEN Fails("FileNotFoundError", c, 182)
          ELSE IF destination_folder.exists
          THEN Fails("FileExistsError", c, 182)
          ELSE \E got \in SUBSET source_folder.items :
                 /\ destination_folder' = Folder(got)
                 /\ IF got = source_folder.items
                    THEN /\ printed' = Append(printed, "Files copied successfully!")
                         /\ pc' = pc + 1
                         /\ UNCHANGED raised
                    ELSE /\ raised' = Exc("shutil.Error", c, 182)
                         /\ UNCHANGED <<pc, printed>>
                 /\ UNCHANGED <<line, log, kernelVars, trainVars, editVars>>
                 /\ UNCHANGED <<source_folder, trainsets, pose_cfg, snapshots, h5,
                                pngs, labeled>>

---------------------------------------------------------------------------
(* Step 4: deeplabcut.create_training_dataset(path_config_file, ...) *)

Call(fn, shuffles) == [fn |-> fn, shuffles |-> shuffles]

CreateTrainingDataset ==
    LET c == "eMeUwgxPoEJP"
        new == 1..num_shuffles
    IN
    /\ Ready(c)
    /\ IF NameError(c)
       THEN Fails("NameError", c, 0) /\ UNCHANGED ns
       ELSE
       /\ ns' = Bound(c)
       /\ IF ~ConfigExists
          THEN Fails("FileNotFoundError", c, 307)
          ELSE /\ trainsets' = trainsets \cup new
               /\ pose_cfg' = [s \in Shuffles |->
                                 IF s \in new THEN File(TemplateText) ELSE pose_cfg[s]]
               /\ log' = Append(log, Call("create_training_dataset", new))
               /\ pc' = pc + 1
               /\ UNCHANGED <<line, raised, printed, kernelVars, trainVars, editVars>>
               /\ UNCHANGED <<source_folder, destination_folder, snapshots, h5, pngs,
                              labeled>>

---------------------------------------------------------------------------
(* The cell that edits pose_cfg.yaml, statement by statement *)

EditCell == "zBimBAQJfmr-"

\* the key the cell assigns
EditKey_typo == "net_type"
EditKey == "init_weights"

\* import yaml .. pose_cfg_content = yaml.safe_load(file)
EditLoad ==
    LET c == EditCell
        f == pose_cfg[ShuffleValue]
    IN
    /\ Ready(c)
    /\ IF NameError(c)
       THEN Fails("NameError", c, 0) /\ UNCHANGED ns
       ELSE
       /\ ns' = Bound(c)
       /\ shuffle' = ShuffleValue
       /\ orig' = f
       /\ editRuns' = editRuns + 1
       /\ log' = Append(log, Call("open_pose_cfg", {ShuffleValue}))
       /\ UNCHANGED <<session, restarted, pc, printed, fileVars, trainVars>>
       /\ IF ~f.exists
          THEN /\ raised' = Exc("FileNotFoundError", c, 356)
               /\ UNCHANGED <<line, pose_cfg_content>>
          ELSE IF ~f.readable
          THEN /\ raised' = Exc("PermissionError", c, 356)
               /\ UNCHANGED <<line, pose_cfg_content>>
          ELSE IF safe_load(f.text) = YAMLError
          THEN /\ raised' = Exc("YAMLError", c, 357)
               /\ UNCHANGED <<line, pose_cfg_content>>
          ELSE /\ pose_cfg_content' = safe_load(f.text)
               /\ line' = "360"
               /\ UNCHANGED raised

InEdit(l) ==
    /\ session = "connected"
    /\ raised = NoExc
    /\ pc = Idx(EditCell)
    /\ line = l

\* pose_cfg_content['init_weights'] = checkpoint
EditAssign ==
    /\ InEdit("360")
    /\ LET r == SetItem(pose_cfg_content, EditKey, Str(Checkpoint)) IN
       IF r = TypeError
       THEN Fails("TypeError", EditCell, 360) /\ UNCHANGED ns
       ELSE /\ pose_cfg_content' = r
            /\ line' = "363"
            /\ UNCHANGED <<session, restarted, shuffle, pc, raised, ns, log, printed>>
            /\ UNCHANGED <<fileVars, trainVars, editVars>>

\* the same statement opening with 'a': nothing is truncated
EditOpenW_append ==
    /\ InEdit("363")
    /\ line' = "364"
    /\ UNCHANGED <<session, restarted, shuffle, pose_cfg_content, pc, raised, ns, log,
                   printed, fileVars, trainVars, editVars>>

\* with open(pose_cfg_path, 'w') as file: the file is truncated
EditOpenW ==
    /\ InEdit("363")
    /\ pose_cfg' = [pose_cfg EXCEPT ![shuffle] = File(EmptyText)]
    /\ line' = "364"
    /\ UNCHANGED <<session, restarted, shuffle, pose_cfg_content, pc, raised, ns, log,
                   printed, trainVars, editVars>>
    /\ UNCHANGED <<source_folder, destination_folder, trainsets, snapshots, h5, pngs,
                   labeled>>

\* yaml.dump(pose_cfg_content, file)
EditDump ==
    /\ InEdit("364")
    /\ pose_cfg' = [pose_cfg EXCEPT ![shuffle] = File(dump(pose_cfg_content))]
    /\ line' = "idle"
    /\ pc' = pc + 1
    /\ UNCHANGED <<session, restarted, shuffle, pose_cfg_content, raised, ns, log,
                   printed, trainVars, editVars>>
    /\ UNCHANGED <<source_folder, destination_folder, trainsets, snapshots, h5, pngs,
                   labeled>>

\* the user stops the cell between two statements
EditInterrupt ==
    /\ \E l \in {"360", "363", "364"} : InEdit(l)
    /\ raised' = Exc("KeyboardInterrupt", EditCell, 0)
    /\ line' = "idle"
    /\ UNCHANGED <<pc, ns, log, printed, kernelVars, fileVars, trainVars, editVars>>

\* the user runs the edit cell again
EditAgain ==
    /\ session = "connected"
    /\ raised = NoExc
    /\ line = "idle"
    /\ pc = Idx(EditCell) + 1
    /\ editRuns < MaxEditRuns
    /\ pc' = Idx(EditCell)
    /\ UNCHANGED <<line, raised, ns, log, printed, kernelVars, fileVars, trainVars,
                   editVars>>

---------------------------------------------------------------------------
(* Step 5: deeplabcut.train_network(path_config_file, shuffle=shuffle,       *)
(*         displayiters=10, saveiters=50, maxiters=100)                      *)

TrainCell == "_pOvDq_2oEJW"

\* the call reads the pose_cfg.yaml of the shuffle and loads its init_weights
TrainStart ==
    LET c == TrainCell IN
    /\ Ready(c)
    /\ IF NameError(c)
       THEN Fails("NameError", c, 0) /\ UNCHANGED ns
       ELSE
       /\ ns' = Bound(c)
       /\ LET f == pose_cfg[shuffle]
              cfg == safe_load(f.text)
          IN
          IF ~ConfigExists \/ ~f.exists
          THEN Fails("FileNotFoundError", c, 396)
          ELSE IF cfg.type # "dict" \/ "init_weights" \notin DOMAIN cfg.items
          THEN Fails("KeyError", c, 396)
          ELSE IF cfg.items["init_weights"].v = Checkpoint /\ ~CheckpointExists
          THEN Fails("FileNotFoundError", c, 396)
          ELSE /\ init_weights' = cfg.items["init_weights"].v
               /\ start_iter' = SnapshotIndex(cfg.items["init_weights"].v)
               /\ it' = SnapshotIndex(cfg.items["init_weights"].v)
               /\ trainStatus' = "running"
               /\ line' = "train"
               /\ log' = Append(log, Call("train_network", {shuffle}))
               /\ UNCHANGED <<pc, raised, printed, kernelVars, fileVars, editVars>>

Training ==
    /\ session = "connected"
    /\ raised = NoExc
    /\ pc = Idx(TrainCell)
    /\ line = "train"

\* one training iteration; a snapshot every saveiters iterations and at the end
TrainIter ==
    /\ Training
    /\ it < start_iter + maxiters
    /\ it' = it + 1
    /\ snapshots' =
         IF (it + 1) % saveiters = 0 \/ it + 1 = start_iter + maxiters
         THEN snapshots \cup {[shuffle |-> shuffle, index |-> it + 1]}
         ELSE snapshots
    /\ IF it + 1 = start_iter + maxiters
       THEN /\ trainStatus' = "finished"
            /\ line' = "idle"
            /\ pc' = pc + 1
       ELSE UNCHANGED <<trainStatus, line, pc>>
    /\ UNCHANGED <<raised, ns, log, printed, kernelVars, editVars, init_weights,
                   start_iter>>
    /\ UNCHANGED <<source_folder, destination_folder, trainsets, pose_cfg, h5, pngs,
                   labeled>>

\* CTRL+C or the STOP icon: a KeyboardInterrupt "error", and the user goes on
TrainInterrupt ==
    /\ Training
    /\ trainStatus' = "interrupted"
    /\ line' = "idle"
    /\ pc' = pc + 1
    /\ UNCHANGED <<raised, ns, log, printed, kernelVars, fileVars, editVars,
                   init_weights, start_iter, it>>

\* Colab takes away the GPU: the runtime disconnects and its files are erased
Disconnect ==
    /\ Training
    /\ session' = "disconnected"
    /\ trainStatus' = "lost"
    /\ line' = "idle"
    /\ ns' = {}
    /\ shuffle' = 0
    /\ pose_cfg_content' = PyNone
    /\ destination_folder' = NoFolder
    /\ trainsets' = {}
    /\ pose_cfg' = [s \in Shuffles |-> Absent]
    /\ snapshots' = {}
    /\ h5' = {}
    /\ pngs' = {}
    /\ labeled' = {}
    /\ UNCHANGED <<pc, raised, restarted, log, printed, source_folder, editVars,
                   init_weights, start_iter, it>>

---------------------------------------------------------------------------
(* Steps 6 and 7: evaluate, analyze, plot, display, label, display *)

\* a library call on the shuffle's most recent snapshot
DLCCall(c, l, fn, shuffles, effect) ==
    /\ Ready(c)
    /\ IF NameError(c)
       THEN Fails("NameError", c, 0) /\ UNCHANGED ns
       ELSE
       /\ ns' = Bound(c)
       /\ IF ~ConfigExists \/ SnapshotsOf(shuffle) = {}
          THEN Fails("FileNotFoundError", c, l)
          ELSE /\ effect
               /\ log' = Append(log, Call(fn, shuffles))
               /\ pc' = pc + 1
               /\ UNCHANGED <<line, raised, printed, kernelVars, trainVars, editVars>>
               /\ UNCHANGED <<source_folder, destination_folder, trainsets, pose_cfg,
                              snapshots>>

Scorer == [shuffle |-> shuffle, snapshot |-> Latest(shuffle)]

\* deeplabcut.evaluate_network(path_config_file, plotting=True, Shuffles=(shuffle,))
EvaluateNetwork ==
    DLCCall("nv4zlbrnoEJg", 442, "evaluate_network", {shuffle},
            UNCHANGED <<h5, pngs, labeled>>)

\* deeplabcut.analyze_videos(path_config_file, videofile_path, videotype=VideoType, shuffle=shuffle)
AnalyzeVideos ==
    DLCCall("Y_LZiS_0oEJl", 487, "analyze_videos", {shuffle},
            /\ h5' = IF VideosExist THEN h5 \cup {Scorer} ELSE h5
            /\ UNCHANGED <<pngs, labeled>>)

\* deeplabcut.plot_trajectories(path_config_file, videofile_path, videotype=VideoType, shuffle=shuffle)
PlotTrajectories ==
    DLCCall("gX21zZbXoEKJ", 529, "plot_trajectories", {shuffle},
            /\ pngs' = IF VideosExist /\ Scorer \in h5
                       THEN pngs \cup {PlotFiles[i] : i \in 1..Len(PlotFiles)}
                       ELSE pngs
            /\ UNCHANGED <<h5, labeled>>)

\* deeplabcut.create_labeled_video(path_config_file, videofile_path, videotype=VideoType, shuffle=shuffle)
CreateLabeledVideo ==
    DLCCall("6aDF7Q7KoEKE", 623, "create_labeled_video", {shuffle},
            /\ labeled' = IF VideosExist /\ Scorer \in h5
                          THEN labeled \cup {Scorer}
                          ELSE labeled
            /\ UNCHANGED <<h5, pngs>>)

\* a display cell: it opens the files it shows
Display(c, l, fn, shuffles, e, found) ==
    /\ Ready(c)
    /\ IF NameError(c)
       THEN Fails("NameError", c, 0) /\ UNCHANGED ns
       ELSE
       /\ ns' = Bound(c)
       /\ IF ~found
          THEN Fails(e, c, l)
          ELSE /\ log' = Append(log, Call(fn, shuffles))
               /\ pc' = pc + 1
               /\ UNCHANGED <<line, raised, printed>>
               /\ UNCHANGED <<kernelVars, fileVars, trainVars, editVars>>

\* Image.open of the four plot-poses files
DisplayImages ==
    Display("O_59sDbGprdv", 579, "display_images", {}, "FileNotFoundError",
            \A i \in 1..Len(PlotFiles) : PlotFiles[i] \in pngs)

\* cv2.VideoCapture of the labeled video: of a missing file read() gives no
\* frame and cv2.cvtColor raises
DisplayVideo ==
    Display("JLckBInuqIxt", 652, "display_video", {labelled_video_path.shuffle},
            "cv2.error",
            labelled_video_path \in labeled)

---------------------------------------------------------------------------
(* The notebook, run from the top in the order of its cells *)

Next ==
    \/ Install
    \/ GpuCheck
    \/ Restart
    \/ CopyFromDrive
    \/ SetVariables
    \/ ImportDeeplabcut
    \/ SetPathConfigFile
    \/ CreateTrainingDataset
    \/ EditLoad
    \/ EditAssign
    \/ EditOpenW
    \/ EditDump
    \/ EditInterrupt
    \/ TrainStart
    \/ TrainIter
    \/ TrainInterrupt
    \/ Disconnect
    \/ EvaluateNetwork
    \/ AnalyzeVideos
    \/ InstallMpld3
    \/ PlotTrajectories
    \/ DisplayImages
    \/ CreateLabeledVideo
    \/ DisplayVideo

Spec == Init /\ [][Next]_vars

---------------------------------------------------------------------------
(* The paths each cell hands to the call that reads them *)

PlotSet == {PlotFiles[i] : i \in 1..Len(PlotFiles)}

PathsRead(c) ==
    CASE c = "eMeUwgxPoEJP" -> {"config.yaml"}
      [] c = "zBimBAQJfmr-" -> {"pose_cfg.yaml"}
      [] c = "_pOvDq_2oEJW" -> {"config.yaml", "pose_cfg.yaml", "snapshot-100000"}
      [] c = "nv4zlbrnoEJg" -> {"config.yaml"}
      [] c \in {"Y_LZiS_0oEJl", "gX21zZbXoEKJ", "6aDF7Q7KoEKE"} ->
           {"config.yaml", "behavior-videos"}
      [] c = "O_59sDbGprdv" -> PlotSet
      [] c = "JLckBInuqIxt" -> {"labeled.mp4"}
      [] OTHER -> {}

PathExists(p) ==
    CASE p = "pose_cfg.yaml" -> pose_cfg[ShuffleValue].exists
      [] p = "labeled.mp4" ->
           [shuffle |-> ShuffleValue, snapshot |-> LabelledVideoSnapshot] \in labeled
      [] p \in PlotSet -> p \in pngs
      [] OTHER -> Has(p)

---------------------------------------------------------------------------
(* The edit cell alone, on whatever pose_cfg.yaml it finds *)

\* the names bound once the first i cells have run
RECURSIVE NsAfter(_)
NsAfter(i) == IF i = 0 THEN {} ELSE Exec(Stmts(CellOrder[i]), 1, NsAfter(i - 1))

EditInputs ==
    {Absent, Unreadable(TemplateText)}
      \cup {File(t) : t \in OtherTexts}
      \cup {File(MapText(e)) : e \in SeqsUpTo(Entry, MaxEntries)}

InitEdit ==
    /\ session = "connected"
    /\ pc = Idx(EditCell)
    /\ line = "idle"
    /\ raised = NoExc
    /\ restarted = FALSE
    /\ ns = NsAfter(Idx(EditCell) - 1)
    /\ shuffle = 0
    /\ pose_cfg_content = PyNone
    /\ log = <<Call("create_training_dataset", 1..num_shuffles)>>
    /\ printed = <<"Files copied successfully!">>
    /\ source_folder = Folder(DriveItems)
    /\ destination_folder = Folder(DriveItems)
    /\ trainsets = 1..num_shuffles
    /\ \E f \in EditInputs :
         pose_cfg = [s \in Shuffles |-> IF s = ShuffleValue THEN f ELSE Absent]
    /\ orig = Absent
    /\ editRuns = 0
    /\ snapshots = {}
    /\ h5 = {}
    /\ pngs = {}
    /\ labeled = {}
    /\ trainStatus = "notrun"
    /\ init_weights = ""
    /\ start_iter = 0
    /\ it = 0

NextEdit ==
    \/ EditLoad
    \/ EditAssign
    \/ EditOpenW
    \/ EditDump
    \/ EditInterrupt
    \/ EditAgain

SpecEdit == InitEdit /\ [][NextEdit]_vars

---------------------------------------------------------------------------
(* The Drive-copy cell alone, run once or twice in the same runtime *)

CopyCell == "KS4Q4UkR9rgG"

\* the user runs the Drive-copy cell a second time
CopyAgain ==
    /\ session = "connected"
    /\ raised = NoExc
    /\ line = "idle"
    /\ pc = Idx(CopyCell) + 1
    /\ pc' = Idx(CopyCell)
    /\ UNCHANGED <<line, raised, ns, log, printed, kernelVars, fileVars, trainVars,
                   editVars>>

InitCopy ==
    /\ session = "connected"
    /\ pc = Idx(CopyCell)
    /\ line = "idle"
    /\ raised = NoExc
    /\ restarted = FALSE
    /\ ns = NsAfter(Idx(CopyCell) - 1)
    /\ shuffle = 0
    /\ pose_cfg_content = PyNone
    /\ log = <<>>
    /\ printed = <<>>
    /\ source_folder \in {NoFolder} \cup {Folder(items) : items \in SUBSET DriveItems}
    /\ destination_folder \in
         {NoFolder} \cup {Folder(items) : items \in SUBSET DriveItems}
    /\ trainsets = {}
    /\ pose_cfg = [s \in Shuffles |-> Absent]
    /\ orig = Absent
    /\ editRuns = 0
    /\ snapshots = {}
    /\ h5 = {}
    /\ pngs = {}
    /\ labeled = {}
    /\ trainStatus = "notrun"
    /\ init_weights = ""
    /\ start_iter = 0
    /\ it = 0

NextCopy ==
    \/ CopyFromDrive
    \/ CopyAgain

SpecCopy == InitCopy /\ [][NextCopy]_vars

---------------------------------------------------------------------------
(* Properties *)

SixCalls ==
    <<"create_training_dataset", "train_network", "evaluate_network",
      "analyze_videos", "plot_trajectories", "create_labeled_video">>
FiveCalls == SubSeq(SixCalls, 1, 5)
SixSet == {SixCalls[k] : k \in 1..Len(SixCalls)}

IsDLC(e) == e.fn \in SixSet
\* the DeepLabCut calls among the first n entries of the log, in order
CallsBefore(n) ==
    LET calls == SelectSeq(SubSeq(log, 1, n), IsDLC)
    IN [k \in 1..Len(calls) |-> calls[k].fn]
IsPrefix(a, b) == Len(a) <= Len(b) /\ a = SubSeq(b, 1, Len(a))

RunComplete == session = "connected" /\ pc = Done /\ raised = NoExc

\* C1 as stated: the six DeepLabCut calls are made once each, in the order
\* create_training_dataset, train_network, evaluate_network, analyze_videos,
\* plot_trajectories, create_labeled_video, and every display cell runs only
\* after all six of them.
C1_DisplaysAfterAllSix ==
    /\ IsPrefix(CallsBefore(Len(log)), SixCalls)
    /\ RunComplete => CallsBefore(Len(log)) = SixCalls
    /\ \A i \in 1..Len(log) :
         log[i].fn \in {"display_images", "display_video"} =>
           CallsBefore(i) = SixCalls

\* C1 (amended): the six DeepLabCut calls are made in that order, none twice,
\* and all six once the last cell has run; the image display cell runs after
\* the first five of them and before create_labeled_video, and the video
\* display cell runs after all six.
C1_CallsInOrder ==
    /\ IsPrefix(CallsBefore(Len(log)), SixCalls)
    /\ RunComplete => CallsBefore(Len(log)) = SixCalls
    /\ \A i \in 1..Len(log) :
         /\ log[i].fn = "display_images" => CallsBefore(i) = FiveCalls
         /\ log[i].fn = "display_video" => CallsBefore(i) = SixCalls

C1_Witness ==
    /\ RunComplete
    /\ \E i \in 1..Len(log) : log[i].fn = "display_images"
    /\ log[Len(log)].fn = "display_video"


\* the edit cell has run to its end on the file that was orig
EditCompleted ==
    /\ editRuns >= 1
    /\ raised = NoExc
    /\ line = "idle"
    /\ pc = Idx(EditCell) + 1

LoadedDict(f) == safe_load(f.text).items
ParsesToDict(f) == f.exists /\ f.readable /\ safe_load(f.text).type = "dict"

\* C2: once the edit cell has completed on a pose_cfg.yaml that parses to a
\* dictionary, the file parses to that dictionary with init_weights set to the
\* checkpoint path: the key is there whether or not it was before, every other
\* key has its previous value, and no other key is added or removed.
C2_OnlyInitWeightsChanges ==
    (EditCompleted /\ ParsesToDict(orig)) =>
      LET before == LoadedDict(orig)
          now == pose_cfg[ShuffleValue]
      IN /\ ParsesToDict(now)
         /\ DOMAIN LoadedDict(now) = DOMAIN before \cup {"init_weights"}
         /\ LoadedDict(now)["init_weights"] = Str(Checkpoint)
         /\ \A k \in DOMAIN before \ {"init_weights"} : LoadedDict(now)[k] = before[k]

\* the cell has completed on a file that had no init_weights and held the str '1'
C2_Witness ==
    /\ EditCompleted
    /\ ParsesToDict(orig)
    /\ "init_weights" \notin DOMAIN LoadedDict(orig)
    /\ \E k \in DOMAIN LoadedDict(orig) : LoadedDict(orig)[k] = Str("1")

\* C3: when train_network is invoked, the pose_cfg.yaml of the shuffle it
\* trains has init_weights equal to the prior checkpoint: the edit is made
\* after create_training_dataset has written the file, and from the end of the
\* edit to the start of the training the file keeps that value.
C3_TrainsFromCheckpoint ==
    /\ trainStatus # "notrun" =>
         /\ init_weights = Checkpoint
         /\ start_iter = CheckpointIndex
    /\ (session = "connected" /\ raised = NoExc /\ line \in {"idle", "train"}
          /\ pc = Idx(TrainCell)) =>
         /\ ParsesToDict(pose_cfg[shuffle])
         /\ "init_weights" \in DOMAIN LoadedDict(pose_cfg[shuffle])
         /\ LoadedDict(pose_cfg[shuffle])["init_weights"] = Str(Checkpoint)
    /\ \A i \in 1..Len(log) :
         log[i].fn = "train_network" =>
           \E j \in 1..i : \E k \in j..i :
             /\ log[j].fn = "create_training_dataset"
             /\ log[k].fn = "open_pose_cfg"
             /\ log[i].shuffles = log[k].shuffles

\* train_network has started and has made some iterations
C3_Witness ==
    /\ trainStatus = "running"
    /\ it > start_iter


DriveHoldsProject == source_folder = Folder(DriveItems)

\* a cell is about to be run
AboutToRun(c) ==
    /\ session = "connected"
    /\ raised = NoExc
    /\ line = "idle"
    /\ pc <= Len(CellOrder)
    /\ CellOrder[pc] = c

\* C4 as stated: in a run in notebook order on a Drive folder that holds the
\* project, every path a cell reads exists when the cell is about to run.
C4_PathsExistBeforeUse ==
    DriveHoldsProject =>
      \A i \in 1..Len(CellOrder) :
        AboutToRun(CellOrder[i]) =>
          \A p \in PathsRead(CellOrder[i]) : PathExists(p)

\* C5 as stated: after a keyboard interrupt of train_network, at whatever
\* iteration, none of the cells after it stops with an exception.
C5_InterruptIsHarmless ==
    (DriveHoldsProject /\ trainStatus = "interrupted") => raised = NoExc

C7_NoNameError == raised.exc # "NameError"

\* the runtime was restarted and the last cell has run
C7_Witness ==
    /\ restarted
    /\ RunComplete

\* the entries of the log that take the shuffle
UsesShuffle(e) ==
    e.fn \in {"open_pose_cfg", "train_network", "evaluate_network", "analyze_videos",
              "plot_trajectories", "create_labeled_video", "display_video"}

\* C8: the pose_cfg.yaml that is edited, the five calls that take a shuffle and
\* the labeled-video filename all use one shuffle, the value of the variable
\* shuffle, and create_training_dataset has created that shuffle before.
C8_OneShuffle ==
    \A i \in 1..Len(log) :
      UsesShuffle(log[i]) =>
        /\ \E n \in Shuffles : log[i].shuffles = {n}
        /\ session = "connected" => log[i].shuffles = {shuffle}
        /\ \A j \in 1..Len(log) : UsesShuffle(log[j]) => log[j].shuffles = log[i].shuffles
        /\ \E j \in 1..i :
             /\ log[j].fn = "create_training_dataset"
             /\ log[i].shuffles \subseteq log[j].shuffles

C8_Witness ==
    /\ RunComplete
    /\ Len(SelectSeq(log, UsesShuffle)) = 7

\* the snapshots this call of train_network has written
NewSnapshots == {x \in snapshots : x.index > start_iter}

C10_FailsBeforeWriting ==
    (editRuns >= 1 /\ ~ParsesToDict(orig)) =>
      /\ pose_cfg[ShuffleValue] = orig
      /\ editRuns = 1
      /\ pc = Idx(EditCell)
      /\ line \notin {"363", "364"}
      /\ ~orig.exists => raised = Exc("FileNotFoundError", EditCell, 356)
      /\ (orig.exists /\ ~orig.readable) => raised = Exc("PermissionError", EditCell, 356)
      /\ (orig.exists /\ orig.readable) =>
           IF safe_load(orig.text) = YAMLError
           THEN raised = Exc("YAMLError", EditCell, 357)
           ELSE \/ raised = NoExc /\ line = "360"
                \/ raised = Exc("TypeError", EditCell, 360)
                \/ raised = Exc("KeyboardInterrupt", EditCell, 0)

\* the assignment has failed on a file that parses to something else
C10_Witness ==
    /\ raised = Exc("TypeError", EditCell, 360)
    /\ orig.exists /\ orig.readable
    /\ pose_cfg[ShuffleValue] = orig


\* what the file holds once the cell has completed on the file that was orig
Updated == File(dump(SetItem(safe_load(orig.text), "init_weights", Str(Checkpoint))))

\* C11 as stated: during and after the edit cell, also when it is interrupted
\* or fails part-way, pose_cfg.yaml is the complete original or the complete
\* updated configuration, never empty or partially written.
C11_OriginalOrUpdated ==
    (editRuns >= 1 /\ ParsesToDict(orig)) =>
      \/ pose_cfg[ShuffleValue] = orig
      \/ pose_cfg[ShuffleValue] = Updated

\* C11 (amended): pose_cfg.yaml is the complete original configuration until
\* open(pose_cfg_path, 'w') runs and the complete updated configuration once
\* yaml.dump has returned; between the two the file is truncated (empty, or
\* partially written), and a cell interrupted there leaves it so.
C11_TruncatedWhileWriting ==
    (editRuns >= 1 /\ ParsesToDict(orig)) =>
      /\ line \in {"360", "363"} => pose_cfg[ShuffleValue] = orig
      /\ line = "364" => pose_cfg[ShuffleValue] = File(EmptyText)
      /\ EditCompleted => pose_cfg[ShuffleValue] = Updated
      /\ raised # NoExc =>
           /\ raised = Exc("KeyboardInterrupt", EditCell, 0)
           /\ pose_cfg[ShuffleValue] \in {orig, File(EmptyText)}

\* the cell was interrupted after the open for writing: the file is empty
C11_Witness ==
    /\ editRuns >= 1
    /\ ParsesToDict(orig)
    /\ raised = Exc("KeyboardInterrupt", EditCell, 0)
    /\ pose_cfg[ShuffleValue] = File(EmptyText)


\* C12: a run of the Drive-copy cell prints "Files copied successfully!" only
\* if the destination folder did not exist when it started and the whole
\* source folder was copied; started when the destination folder exists (as
\* on a second run in the same runtime) it raises, prints nothing and leaves
\* the destination folder as it was.
C12_PrintsOnlyAfterFullCopy ==
    [][Ready(CopyCell) =>
         /\ printed' # printed =>
              /\ ~destination_folder.exists
              /\ destination_folder' = source_folder
              /\ printed' = Append(printed, "Files copied successfully!")
              /\ raised' = NoExc
         /\ destination_folder.exists =>
              /\ raised' # NoExc
              /\ source_folder.exists =>
                   raised' = Exc("FileExistsError", CopyCell, 182)
              /\ printed' = printed
              /\ destination_folder' = destination_folder]_vars

\* the cell has printed on its first run and raised on its second
C12_Witness ==
    /\ printed = <<"Files copied successfully!">>
    /\ raised = Exc("FileExistsError", CopyCell, 182)
    /\ destination_folder = source_folder


LabelCell == "6aDF7Q7KoEKE"

\* C13: the snapshot index in the labeled-video filename the last cell opens
\* (100100) is the iteration of the checkpoint written to init_weights
\* (100000) plus the maxiters passed to train_network (100); after a run in
\* notebook order in which training was not interrupted, the video that
\* create_labeled_video produced is the one of the most recent snapshot and
\* is the one the last cell opens.
C13_OpensLatestSnapshotVideo ==
    /\ LabelledVideoSnapshot = CheckpointIndex + maxiters
    /\ (trainStatus = "finished" /\ pc > Idx(LabelCell)) =>
         /\ start_iter = CheckpointIndex
         /\ Latest(shuffle) = start_iter + maxiters
         /\ labelled_video_path.snapshot = Latest(shuffle)
         /\ labeled \subseteq {labelled_video_path}
         /\ VideosExist => labeled = {labelled_video_path}
         /\ DriveHoldsProject => raised = NoExc
         /\ RunComplete =>
              /\ labelled_video_path \in labeled
              /\ log[Len(log)] = Call("display_video", {shuffle})

\* training ended by itself and the last cell has shown the labeled video
C13_Witness ==
    /\ RunComplete
    /\ trainStatus = "finished"
    /\ labeled = {[shuffle |-> ShuffleValue, snapshot |-> 100100]}
    /\ SnapshotsOf(ShuffleValue) = {100050, 100100}


\* C14: the YAML-edit cell is idempotent: run a second time, on the file its
\* first run wrote from a pose_cfg.yaml that parses to a dictionary, it
\* leaves the same configuration dictionary in the file (and the same text)
\* as the first run did.
C14_EditIdempotent ==
    (EditCompleted /\ editRuns >= 2) =>
      /\ ParsesToDict(orig)
      /\ ParsesToDict(pose_cfg[ShuffleValue])
      /\ LoadedDict(pose_cfg[ShuffleValue]) = LoadedDict(orig)
      /\ pose_cfg[ShuffleValue] = orig

\* the second run has ended on a configuration with other keys
C14_Witness ==
    /\ EditCompleted
    /\ editRuns = 2
    /\ DOMAIN LoadedDict(pose_cfg[ShuffleValue]) = {"batch_size", "init_weights"}
    /\ LoadedDict(pose_cfg[ShuffleValue])["batch_size"] = Str("1")

=============================================================================
